---------------------------- MODULE Spec2Model ----------------------------
(***************************************************************************)
(* Model of src/src/components/GeocoderApp.tsx.                            *)
(*                                                                         *)
(* The file holds two components of the same name:                         *)
(*   - the streaming component (lines 29-608): processFile reads a         *)
(*     chunked "data: <json>" stream and feeds handleSSEEvent;             *)
(*   - the fallback component (lines 638-1264): processFile awaits one     *)
(*     response while an interval fabricates progress.                     *)
(*                                                                         *)
(* React state is held as the value it has once every queued update has    *)
(* been applied: all setX(value) calls of the source are plain value sets, *)
(* so applying them in call order gives the state of the next render.      *)
(* The one exception is the updater queued by addLogEntry, which reads     *)
(* logIdRef.current when React runs it, not when it is queued: those       *)
(* updaters are kept in pendingLog until render runs them.  The updater of  *)
(* the fallback's progress interval reads nothing but the previous value,  *)
(* so applying it in call order is what React does.                        *)
(***************************************************************************)
EXTENDS Integers, Sequences, FiniteSets, TLC

VARIABLES
  \* ---- React state (useState) ----
  apiStatus,        \* 'checking' | 'online' | 'offline'
  file,             \* TRUE when a file is selected (File | null)
  isProcessing,
  progress,         \* number, in 1/Scale percent; NaN and Infinity are values
  totalRows,
  result,           \* ProcessingResult | null
  downloadUrl,      \* object URL | null
  downloadFilename,
  error,            \* ApiError | null
  elapsedTime,
  logEntries,       \* the log as rendered
  showLog,
  \* ---- refs and closure variables ----
  timerIntervalRef,     \* interval handle | null
  progressIntervalRef,  \* interval handle | null (fallback component)
  logIdRef,
  buffer,           \* `buffer` of the read loop: decoded, not yet split text
  decoder,          \* pending bytes of the streaming TextDecoder
  \* ---- environment ----
  pc,               \* where the async processFile is suspended
  stream,           \* the bytes of the response body not yet delivered
  response,         \* the Response the fallback processFile holds | null
  pendingLog,       \* queued addLogEntry updaters, not yet run by React
  dirty,            \* an update was queued since the last render
  mounted,          \* the component is mounted
  intervals,        \* the interval handles that are live (setInterval, not cleared)
  objectUrls,       \* the object URLs that are live (created, not revoked)
  inputs,           \* which family of response bodies the server draws from
  \* ---- history (not read by the program) ----
  sent,             \* every byte the server sent in this run, in order
  frames,           \* every line that passed startsWith('data: '), in order
  handled           \* every parsed value handed to handleSSEEvent, in order

reactState == <<apiStatus, file, isProcessing, progress, totalRows, result,
                downloadUrl, downloadFilename, error, elapsedTime, logEntries,
                showLog>>
refs == <<timerIntervalRef, progressIntervalRef, logIdRef, buffer, decoder>>
env == <<pc, stream, response, pendingLog, dirty, mounted, intervals, objectUrls, inputs>>
history == <<sent, frames, handled>>
vars == <<reactState, refs, env, history>>

-----------------------------------------------------------------------------
(* Bounds of the model.                                                     *)

\* Terminated lines of one response body of events.
MaxLines == 3
\* Terminated lines of one response body of the "frames" family.
MaxFrameLines == 2
\* Largest value the elapsed-time ticker is followed to.
MaxElapsed == 1
\* Object URLs created before the model stops starting runs.
MaxUrls == 2
\* Resolution of the fractional progress values: units per percent.
Scale == 20

-----------------------------------------------------------------------------
(* Values.                                                                  *)

Null == [null |-> TRUE]

\* Math.round(x / 0 * 100) is Infinity for x > 0 and NaN for x = 0; both are
\* numbers in the source.  They are kept apart from the finite values.
NaN == 0 - 1
Infinity == 0 - 2

Pct(n) == n * Scale

IsFinite(p) == p >= 0

LF == "\n"
Prefix == <<"d", "a", "t", "a", ":", " ">>

\* The two bytes of a two-byte UTF-8 character and the character they encode.
LeadByte == "C3"
ContByte == "A9"
TwoByteChar == "U+00E9"
Replacement == "U+FFFD"

-----------------------------------------------------------------------------
(* TextDecoder.decode(value, { stream: true })                              *)

\* One byte through the streaming UTF-8 decoder.  pend is TRUE when a lead
\* byte is waiting for its continuation byte.
DecodeByte(pend, b) ==
  IF pend
    THEN IF b = ContByte THEN [text |-> <<TwoByteChar>>, pend |-> FALSE]
         ELSE IF b = LeadByte THEN [text |-> <<Replacement>>, pend |-> TRUE]
         ELSE [text |-> <<Replacement, b>>, pend |-> FALSE]
    ELSE IF b = LeadByte THEN [text |-> <<>>, pend |-> TRUE]
         ELSE IF b = ContByte THEN [text |-> <<Replacement>>, pend |-> FALSE]
         ELSE [text |-> <<b>>, pend |-> FALSE]

RECURSIVE DecodeFrom(_, _, _)
DecodeFrom(pend, bytes, out) ==
  IF bytes = <<>> THEN [text |-> out, pend |-> pend]
  ELSE LET r == DecodeByte(pend, Head(bytes))
       IN DecodeFrom(r.pend, Tail(bytes), out \o r.text)

\* decode without { stream: true }: every chunk is decoded on its own and an
\* incomplete character at its end becomes U+FFFD.
decodeEachChunk(pend, value) ==
  LET d == DecodeFrom(FALSE, value, <<>>)
  IN [text |-> IF d.pend THEN d.text \o <<Replacement>> ELSE d.text,
      pend |-> FALSE]

\* decoder.decode(value, { stream: true }): the text of the chunk and the
\* decoder's new pending state.  Incomplete trailing bytes are held back.
decode(pend, value) == DecodeFrom(pend, value, <<>>)

-----------------------------------------------------------------------------
(* String helpers of the read loop.                                         *)

RECURSIVE SplitFrom(_, _, _)
SplitFrom(s, cur, acc) ==
  IF s = <<>> THEN Append(acc, cur)
  ELSE IF Head(s) = LF THEN SplitFrom(Tail(s), <<>>, Append(acc, cur))
  ELSE SplitFrom(Tail(s), Append(cur, Head(s)), acc)

\* buffer.split('\n'): never empty; the last element is the unterminated rest.
split(s) == SplitFrom(s, <<>>, <<>>)

\* line.includes(p)
includes(s, p) ==
  \E i \in 1..(Len(s) - Len(p) + 1) : SubSeq(s, i, i + Len(p) - 1) = p

\* line.startsWith(p)
startsWith(s, p) == Len(s) >= Len(p) /\ SubSeq(s, 1, Len(p)) = p

\* line.slice(6)
slice(s, n) == SubSeq(s, n + 1, Len(s))

Front(s) == SubSeq(s, 1, Len(s) - 1)
Last(s) == s[Len(s)]

-----------------------------------------------------------------------------
(* The JSON documents the server can send.  A document is written as the    *)
(* character "{" followed by one character that stands for the rest of the  *)
(* object text, closing brace included; a proper prefix of a document is    *)
(* not valid JSON, as for real object texts.                                *)

Stats(p, e, n, x) ==
  [procesadas |-> p, encontradas |-> e, no_encontradas |-> n, errores |-> x]

Progress(p, t, st, r) ==
  [type |-> "progress", stats |-> [procesadas |-> p], total |-> t,
   status |-> st, row |-> r, direccion |-> "A", municipio |-> "M",
   cp |-> "28001"]

\* The value of each document body.
Documents ==
  [ S2   |-> [type |-> "start", total |-> 2],
    P12  |-> Progress(1, 2, "found", 1),
    P410 |-> Progress(4, 10, "not_found", 4),
    P32  |-> Progress(3, 2, "found", 3),
    P10  |-> Progress(1, 0, "found", 1),
    P00  |-> Progress(0, 0, "not_found", 1),
    PX   |-> [type |-> "progress", total |-> 2, status |-> "found", row |-> 1],
    RE   |-> [type |-> "row_error", row |-> 2, error |-> "sin direccion"],
    ER   |-> [type |-> "error", message |-> "fallo del servidor"],
    C    |-> [type |-> "complete", stats |-> Stats(2, 1, 1, 0), elapsed |-> "5s"],
    CF   |-> [type |-> "complete", stats |-> Stats(2, 1, 1, 0), elapsed |-> "5s",
              file |-> "QUJD", filename |-> "geocodificado.xlsx"],
    CB   |-> [type |-> "complete", stats |-> Stats(2, 1, 1, 0), elapsed |-> "5s",
              file |-> "%%%", filename |-> "geocodificado.xlsx"],
    UK   |-> [type |-> "heartbeat"],
    NT   |-> [total |-> 2],
    ST   |-> Stats(2, 1, 1, 0),
    SP   |-> [procesadas |-> 2],
    C32  |-> [type |-> "complete", stats |-> Stats(3, 2, 1, 0), elapsed |-> "5s"] ]

SyntaxError == [threw |-> "SyntaxError"]

\* JSON.parse skips white space around the document.
RECURSIVE Trim(_)
Trim(text) ==
  IF text # <<>> /\ Head(text) = " " THEN Trim(Tail(text))
  ELSE IF text # <<>> /\ text[Len(text)] = " "
    THEN Trim(SubSeq(text, 1, Len(text) - 1))
  ELSE text

\* JSON.parse(text): the parsed value, or SyntaxError when it throws.
JSONparse(text) ==
  LET doc == Trim(text)
  IN IF Len(doc) = 2 /\ doc[1] = "{" /\ doc[2] \in DOMAIN Documents
       THEN [threw |-> "no", json |-> "object", value |-> Documents[doc[2]]]
     ELSE IF doc = <<"null">>
       THEN [threw |-> "no", json |-> "null"]
     ELSE SyntaxError

\* atob(s) throws on characters outside the base64 alphabet.
atobThrows(s) == s # "QUJD"

\* Math.round((procesadas / total) * 100) for non-negative integers.
Percent(procesadas, total) ==
  IF total = 0
    THEN IF procesadas = 0 THEN NaN ELSE Infinity
    ELSE Pct((200 * procesadas + total) \div (2 * total))

-----------------------------------------------------------------------------
(* The part of the state handleSSEEvent and addLogEntry work on, as a       *)
(* record, so that the frames of one chunk can be folded over it.           *)

HandlerState ==
  [progress |-> progress, totalRows |-> totalRows, result |-> result,
   error |-> error, downloadUrl |-> downloadUrl,
   downloadFilename |-> downloadFilename, logEntries |-> logEntries,
   pendingLog |-> pendingLog, logIdRef |-> logIdRef, dirty |-> dirty,
   objectUrls |-> objectUrls, frames |-> frames, handled |-> handled]

\* The entry an addLogEntry updater appends when React runs it: the id is
\* logIdRef.current at that moment.
WithId(entry, id) == [x \in DOMAIN entry \cup {"id"} |->
                        IF x = "id" THEN id ELSE entry[x]]

\* addLogEntry putting the entry before the entries of the log.
addLogEntryFirst(s, entry, eager) ==
  IF eager /\ ~s.dirty
    THEN [s EXCEPT !.logIdRef = @ + 1,
                   !.logEntries = <<WithId(entry, s.logIdRef + 1)>> \o @,
                   !.dirty = TRUE]
    ELSE [s EXCEPT !.logIdRef = @ + 1,
                   !.pendingLog = <<entry>> \o @,
                   !.dirty = TRUE]

\* addLogEntry(entry).  With eager, and nothing else queued, React runs the
\* updater at once (its eager-state path); otherwise the updater is queued.
addLogEntry(s, entry, eager) ==
  IF eager /\ ~s.dirty
    THEN [s EXCEPT !.logIdRef = @ + 1,
                   !.logEntries = Append(@, WithId(entry, s.logIdRef + 1)),
                   !.dirty = TRUE]
    ELSE [s EXCEPT !.logIdRef = @ + 1,
                   !.pendingLog = Append(@, entry),
                   !.dirty = TRUE]

\* URL.createObjectURL(blob): a handle that stays live until it is revoked.
createObjectURL(urls) == [blob |-> Cardinality(urls) + 1]

\* The download URL installed without the atob call that can throw.
CompleteFileUndecoded(s, data) ==
  IF "file" \notin DOMAIN data THEN s
  ELSE LET url == createObjectURL(s.objectUrls)
       IN [s EXCEPT !.objectUrls = @ \cup {url},
                    !.downloadUrl = url,
                    !.downloadFilename = data.filename,
                    !.dirty = TRUE]

\* case 'complete' after the three state updates: the download URL.
CompleteFile(s, data) ==
  IF "file" \notin DOMAIN data THEN s
  ELSE IF atobThrows(data.file) THEN s
  ELSE LET url == createObjectURL(s.objectUrls)
       IN [s EXCEPT !.objectUrls = @ \cup {url},
                    !.downloadUrl = url,
                    !.downloadFilename = data.filename,
                    !.dirty = TRUE]

\* handleSSEEvent(data) on an object.  A TypeError (data.stats undefined)
\* leaves the updates made before it in place and is caught by the caller.
handleObject(s, data, eager) ==
  LET type == IF "type" \in DOMAIN data THEN data.type ELSE "undefined"
  IN CASE type = "start" ->
            addLogEntry([s EXCEPT !.totalRows = data.total, !.dirty = TRUE],
                        [type |-> "info",
                         message |-> <<"Archivo cargado: ", ToString(data.total),
                                       " filas detectadas">>],
                        eager)
       [] type = "progress" ->
            IF "stats" \notin DOMAIN data THEN s
            ELSE addLogEntry(
                   [s EXCEPT !.progress = Percent(data.stats.procesadas, data.total),
                             !.dirty = TRUE],
                   [type |-> IF data.status = "found" THEN "found" ELSE "not_found",
                    row |-> data.row, direccion |-> data.direccion,
                    municipio |-> data.municipio, cp |-> data.cp],
                   eager)
       [] type = "row_error" ->
            addLogEntry(s, [type |-> "error", row |-> data.row,
                            message |-> <<data.error>>], eager)
       [] type = "error" ->
            LET s1 == addLogEntry(s, [type |-> "error",
                                      message |-> <<data.message>>], eager)
            IN [s1 EXCEPT !.error = [message |-> <<data.message>>]]
       [] type = "complete" ->
            LET s1 == [s EXCEPT !.progress = Pct(100), !.dirty = TRUE]
            IN IF "stats" \notin DOMAIN data THEN s1
               ELSE CompleteFile(
                      addLogEntry(
                        [s1 EXCEPT !.result =
                           [total |-> data.stats.procesadas,
                            encontrados |-> data.stats.encontradas,
                            noEncontrados |-> data.stats.no_encontradas,
                            errores |-> data.stats.errores]],
                        [type |-> "complete",
                         message |-> <<"Completado en ", data.elapsed>>],
                        eager),
                      data)
       [] OTHER -> s

\* handleSSEEvent with a default case that logs the event.
handleSSEEventDefault(s, parsed, eager) ==
  LET s1 == [s EXCEPT !.handled = Append(@, parsed)]
      known == {"start", "progress", "row_error", "error", "complete"}
  IN IF parsed.json # "object" THEN s1
     ELSE IF "type" \in DOMAIN parsed.value /\ parsed.value.type \in known
       THEN handleObject(s1, parsed.value, eager)
     ELSE addLogEntry(s1, [type |-> "info", message |-> <<"Evento desconocido">>],
                      eager)

\* handleSSEEvent(data): reading data.type of null throws.
handleSSEEvent(s, parsed, eager) ==
  LET s1 == [s EXCEPT !.handled = Append(@, parsed)]
  IN IF parsed.json = "object" THEN handleObject(s1, parsed.value, eager)
     ELSE s1

\* processLine without its try/catch: the SyntaxError of JSON.parse reaches
\* the catch block of processFile.
processLineNoTry(s, line, eager) ==
  IF startsWith(line, Prefix)
    THEN LET s1 == [s EXCEPT !.frames = Append(@, line)]
             parsed == JSONparse(slice(line, 6))
         IN IF parsed.threw = "no"
              THEN handleSSEEvent(s1, [x \in DOMAIN parsed \ {"threw"} |-> parsed[x]],
                                  eager)
              ELSE [addLogEntry(s1, [type |-> "error",
                                     message |-> <<"Error: ", "Unexpected token">>],
                                eager)
                      EXCEPT !.error = [message |-> <<"Unexpected token">>]]
    ELSE s

\* processLine with the try around JSON.parse only: a TypeError of
\* handleSSEEvent reaches the catch block of processFile.
processLineHandlerEscapes(s, line, eager) ==
  IF startsWith(line, Prefix)
    THEN LET s1 == [s EXCEPT !.frames = Append(@, line)]
             parsed == JSONparse(slice(line, 6))
             throws == \/ parsed.json = "null"
                       \/ /\ parsed.json = "object"
                          /\ "stats" \notin DOMAIN parsed.value
         IN IF parsed.threw # "no" THEN s1
            ELSE IF throws
              THEN [addLogEntry(s1, [type |-> "error",
                                     message |-> <<"Error: ", "TypeError">>],
                                eager)
                      EXCEPT !.error = [message |-> <<"TypeError">>]]
            ELSE handleSSEEvent(s1, [x \in DOMAIN parsed \ {"threw"} |-> parsed[x]],
                                eager)
    ELSE s

\* The body of `if (line.startsWith('data: ')) { try {...} catch {...} }`.
processLine(s, line, eager) ==
  IF startsWith(line, Prefix)
    THEN LET s1 == [s EXCEPT !.frames = Append(@, line)]
             parsed == JSONparse(slice(line, 6))
         IN IF parsed.threw = "no"
              THEN handleSSEEvent(s1, [x \in DOMAIN parsed \ {"threw"} |-> parsed[x]],
                                  eager)
              ELSE s1
    ELSE s

\* The lines of a chunk handled last to first.
RECURSIVE processLinesReversed(_, _, _)
processLinesReversed(s, lines, eager) ==
  IF lines = <<>> THEN s
  ELSE processLine(processLinesReversed(s, Tail(lines), eager), Head(lines), eager)

\* The loop over the lines of a chunk leaving at a row_error frame.
RECURSIVE processLinesUntilRowError(_, _, _)
processLinesUntilRowError(s, lines, eager) ==
  IF lines = <<>> THEN s
  ELSE IF Head(lines) = Prefix \o <<"{", "RE">>
    THEN processLine(s, Head(lines), eager)
  ELSE processLinesUntilRowError(processLine(s, Head(lines), eager),
                                 Tail(lines), eager)

\* for (const line of lines) { ... }
RECURSIVE processLines(_, _, _)
processLines(s, lines, eager) ==
  IF lines = <<>> THEN s
  ELSE processLines(processLine(s, Head(lines), eager), Tail(lines), eager)

-----------------------------------------------------------------------------
(* The response bodies the server draws from.                               *)

Frame(body) == Prefix \o <<"{", body>>

\* The lines (without their line break) a body of each family is made of, and
\* the unterminated texts it can end with.
Lines(family) ==
  CASE family = "frames" ->
         { Frame("UK"),                       \* a frame
           Prefix \o <<LeadByte, ContByte>>,  \* a frame holding a two-byte character
           <<"d", "a", "t">>,                 \* a line cut inside the prefix
           <<" ">> \o Frame("S2"),            \* the prefix, not at the start
           <<>> }                             \* an empty line
    [] family = "events" ->
         { Frame("S2"), Frame("P12"), Frame("C") }
    [] family = "malformed" ->
         { Prefix \o <<"{">>, Frame("S2"), Frame("P12") }
    [] family = "percent" ->
         { Frame("P410"), Frame("P32"), Frame("P10") }
    [] family = "artifact" ->
         { Frame("C"), Frame("CF") }
    [] family = "counts" ->
         { Frame("S2"), Frame("P12"), Frame("C32") }
    [] family = "decode" ->
         { Frame("S2"), Frame("CB") }
    [] family = "complete" ->
         { Frame("P12"), Frame("C"), Frame("CF"), Frame("CB") }
    [] family = "rows" ->
         { Frame("P12"), Frame("RE"), Frame("ER") }
    [] family = "perrow" ->
         { Frame("S2"), Frame("P12"), Frame("RE") }
    [] family = "unknown" ->
         { Frame("P12"), Frame("UK"), Frame("NT") }
    [] family = "outcomes" ->
         { Frame("C"), Frame("ER"), Frame("PX") }
    [] family = "throwing" ->
         { Frame("P12"), Frame("PX"), Prefix \o <<"null">> }

Rests(family) ==
  CASE family = "frames" ->
         { <<>>,                              \* the body ends with a line break
           Frame("UK"),                       \* an unterminated frame
           <<"d", "a">>,                      \* the body ends inside the prefix
           Prefix \o <<LeadByte>> }           \* ... inside a two-byte character
    [] OTHER -> { <<>> }

RECURSIVE Join(_)
Join(ls) == IF ls = <<>> THEN <<>> ELSE Head(ls) \o <<LF>> \o Join(Tail(ls))

SeqsUpTo(S, n) == UNION { [1..k -> S] : k \in 0..n }

LineBound(family) == IF family = "frames" THEN MaxFrameLines ELSE MaxLines

\* Every body of the family: terminated lines, then an unterminated rest.
Bodies(family) ==
  { Join(ls) \o r : ls \in SeqsUpTo(Lines(family), LineBound(family)),
                    r \in Rests(family) }

-----------------------------------------------------------------------------
(* Intervals.                                                               *)

\* setInterval(...): a handle no live interval has.  A handle is a record of
\* its id and of what its callback does ("timer": the elapsed-time ticker,
\* "progress": the progress estimator).
setInterval(live, kind) ==
  LET ids == { h.id : h \in live }
  IN [id |-> CHOOSE i \in 1..(Cardinality(ids) + 1) :
               i \notin ids /\ \A j \in 1..(i - 1) : j \in ids,
      kind |-> kind]

\* if (ref.current) clearInterval(ref.current), on a set of live intervals.
clearInterval(live, ref) == IF ref = Null THEN live ELSE live \ {ref}

-----------------------------------------------------------------------------
(* Writing back a HandlerState.  React ignores state updates of a component *)
(* that is no longer mounted; refs and the browser's object URLs are not    *)
(* React state.                                                             *)

Install(s) ==
  /\ logIdRef' = s.logIdRef
  /\ objectUrls' = s.objectUrls
  /\ frames' = s.frames
  /\ handled' = s.handled
  /\ IF mounted
       THEN /\ progress' = s.progress
            /\ totalRows' = s.totalRows
            /\ result' = s.result
            /\ error' = s.error
            /\ downloadUrl' = s.downloadUrl
            /\ downloadFilename' = s.downloadFilename
            /\ logEntries' = s.logEntries
            /\ pendingLog' = s.pendingLog
            /\ dirty' = s.dirty
       ELSE UNCHANGED <<progress, totalRows, result, error, downloadUrl,
                        downloadFilename, logEntries, pendingLog, dirty>>

\* setIsProcessing(v), setElapsedTime(v), setShowLog(v) and the like.
SetState(cur, v) == IF mounted THEN v ELSE cur

-----------------------------------------------------------------------------
(* The streaming component (lines 29-608).                                  *)

InitWith(family) ==
  /\ apiStatus = "checking"
  /\ file = FALSE
  /\ isProcessing = FALSE
  /\ progress = 0
  /\ totalRows = 0
  /\ result = Null
  /\ downloadUrl = Null
  /\ downloadFilename = "resultado.xlsx"
  /\ error = Null
  /\ elapsedTime = 0
  /\ logEntries = <<>>
  /\ showLog = FALSE
  /\ timerIntervalRef = Null
  /\ progressIntervalRef = Null
  /\ logIdRef = 0
  /\ buffer = <<>>
  /\ decoder = FALSE
  /\ pc = "idle"
  /\ stream = <<>>
  /\ response = Null
  /\ pendingLog = <<>>
  /\ dirty = FALSE
  /\ mounted = TRUE
  /\ intervals = {}
  /\ objectUrls = {}
  /\ inputs = family
  /\ sent = <<>>
  /\ frames = <<>>
  /\ handled = <<>>

\* checkApiStatus up to its await: setApiStatus('checking').  A check is
\* started on mount (the initial state) and by the "Verificar" button.  The
\* button is followed until the first run only, one probe at a time: no
\* handler of a run reads apiStatus.
checkApiStatus ==
  /\ mounted
  /\ apiStatus # "checking"
  /\ pc = "idle"
  /\ apiStatus' = "checking"
  /\ dirty' = TRUE
  /\ UNCHANGED <<file, isProcessing, progress, totalRows, result, downloadUrl,
                 downloadFilename, error, elapsedTime, logEntries, showLog,
                 refs, pc, stream, pendingLog, mounted, intervals, objectUrls,
                 inputs, response, history>>

\* checkApiStatus after its await: the probe answered, failed or timed out.
checkApiStatusDone ==
  /\ apiStatus = "checking"
  /\ \E st \in {"online", "offline"} : apiStatus' = SetState(apiStatus, st)
  /\ dirty' = SetState(dirty, TRUE)
  /\ UNCHANGED <<file, isProcessing, progress, totalRows, result, downloadUrl,
                 downloadFilename, error, elapsedTime, logEntries, showLog,
                 refs, pc, stream, pendingLog, mounted, intervals, objectUrls,
                 inputs, response, history>>

\* resetState()
resetState ==
  /\ result' = Null
  /\ downloadUrl' = Null
  /\ error' = Null
  /\ progress' = 0
  /\ totalRows' = 0
  /\ logEntries' = <<>>
  /\ pendingLog' = <<>>
  /\ showLog' = FALSE
  /\ dirty' = TRUE

\* handleFileSelect / handleDrop with a file of a valid extension.
handleFileSelect ==
  /\ mounted
  /\ file' = TRUE
  /\ resetState
  /\ UNCHANGED <<apiStatus, isProcessing, downloadFilename, elapsedTime, refs,
                 pc, stream, mounted, intervals, objectUrls, inputs, response, history>>

\* removeFile(); its button is disabled while isProcessing.
removeFile ==
  /\ mounted
  /\ file
  /\ ~isProcessing
  /\ file' = FALSE
  /\ resetState
  /\ UNCHANGED <<apiStatus, isProcessing, downloadFilename, elapsedTime, refs,
                 pc, stream, mounted, intervals, objectUrls, inputs, response, history>>

\* processFile without setLogEntries([]) and logIdRef.current = 0.
processFileKeepsLog ==
  /\ mounted
  /\ file /\ apiStatus = "online"
  /\ ~isProcessing
  /\ Cardinality(objectUrls) < MaxUrls
  /\ LET h == setInterval(intervals, "timer")
         s0 == [HandlerState EXCEPT !.progress = 0, !.totalRows = 0,
                                    !.result = Null, !.downloadUrl = Null,
                                    !.error = Null,
                                    !.dirty = TRUE, !.frames = <<>>,
                                    !.handled = <<>>]
         s1 == addLogEntry(s0, [type |-> "info",
                                message |-> <<"Iniciando procesamiento de ",
                                              "file.name", "...">>], FALSE)
     IN /\ Install(s1)
        /\ timerIntervalRef' = h
        /\ intervals' = intervals \cup {h}
  /\ isProcessing' = TRUE
  /\ elapsedTime' = 0
  /\ showLog' = TRUE
  /\ sent' = <<>>
  /\ pc' = "fetch"
  /\ UNCHANGED <<apiStatus, file, progressIntervalRef, buffer, decoder, stream,
                 mounted, inputs, response>>

\* processFile up to `await fetch(...)`; its button is disabled while
\* !file || apiStatus !== 'online' || isProcessing.
processFile ==
  /\ mounted
  /\ file /\ apiStatus = "online"
  /\ ~isProcessing
  /\ Cardinality(objectUrls) < MaxUrls
  /\ LET h == setInterval(intervals, "timer")
         s0 == [HandlerState EXCEPT !.progress = 0, !.totalRows = 0,
                                    !.result = Null, !.downloadUrl = Null,
                                    !.error = Null, !.logEntries = <<>>,
                                    !.pendingLog = <<>>, !.logIdRef = 0,
                                    !.dirty = TRUE, !.frames = <<>>,
                                    !.handled = <<>>]
         s1 == addLogEntry(s0, [type |-> "info",
                                message |-> <<"Iniciando procesamiento de ",
                                              "file.name", "...">>], FALSE)
     IN /\ Install(s1)
        /\ timerIntervalRef' = h
        /\ intervals' = intervals \cup {h}
  /\ isProcessing' = TRUE
  /\ elapsedTime' = 0
  /\ showLog' = TRUE
  /\ sent' = <<>>
  /\ pc' = "fetch"
  /\ UNCHANGED <<apiStatus, file, progressIntervalRef, buffer, decoder, stream,
                 mounted, inputs, response>>

\* Whether React runs an updater at once or queues it is decided by its
\* eager-state path, open only while nothing is queued.
Eager == IF dirty THEN {FALSE} ELSE BOOLEAN

\* A catch block that starts the log over with its error entry.
catchDropsLog(s, message, eager) ==
  [addLogEntry([s EXCEPT !.logEntries = <<>>, !.pendingLog = <<>>],
               [type |-> "error", message |-> <<"Error: ", message>>], eager)
     EXCEPT !.error = [message |-> <<message>>]]

\* catch (err) { addLogEntry(error); setError(...) }
catch(s, message, eager) ==
  [addLogEntry(s, [type |-> "error", message |-> <<"Error: ", message>>], eager)
     EXCEPT !.error = [message |-> <<message>>]]

\* A finally block that leaves the elapsed-time interval running.
finallyKeepsTimer(outcome) ==
  /\ intervals' = intervals
  /\ isProcessing' = SetState(isProcessing, FALSE)
  /\ pc' = outcome

\* finally without setIsProcessing(false).
finallyKeepsProcessing(outcome) ==
  /\ intervals' = clearInterval(intervals, timerIntervalRef)
  /\ isProcessing' = isProcessing
  /\ pc' = outcome

\* finally { clearInterval(timerIntervalRef.current); setIsProcessing(false) }
\* pc records how processFile returned: "done" from the end of the read
\* loop, "failed" through the catch block.
finally(outcome) ==
  /\ intervals' = clearInterval(intervals, timerIntervalRef)
  /\ isProcessing' = SetState(isProcessing, FALSE)
  /\ pc' = outcome

\* The messages of the transport failures: fetch rejected, !response.ok,
\* response.body missing.
FetchErrors == {"Failed to fetch", "Error 500: Internal Server Error",
                "No se pudo leer la respuesta"}

\* The fetch is rejected, answers a non-success status, or has no body.
fetchFails ==
  /\ pc = "fetch"
  /\ \E message \in FetchErrors, eager \in Eager :
       Install(catch(HandlerState, message, eager))
  /\ finally("failed")
  /\ UNCHANGED <<apiStatus, file, elapsedTime, showLog, timerIntervalRef, progressIntervalRef, buffer, decoder,
                 stream, mounted, inputs, response, sent>>

\* The fetch answers with a success status and a readable body.
fetchOk ==
  /\ pc = "fetch"
  /\ \E body \in Bodies(inputs) : stream' = body
  /\ buffer' = <<>>
  /\ decoder' = FALSE
  /\ pc' = "read"
  /\ UNCHANGED <<reactState, timerIntervalRef, progressIntervalRef, logIdRef,
                 pendingLog, dirty, mounted, intervals, objectUrls, inputs, response,
                 history>>

\* feed without `buffer = lines.pop()`: the handled lines stay in the buffer.
feedKeepsBuffer(buf, pend, value) ==
  LET d == decode(pend, value)
      parts == split(buf \o d.text)
  IN [lines |-> Front(parts), buffer |-> buf \o d.text, pend |-> d.pend]

\* if (value) buffer += decoder.decode(value, { stream: true });
\* const lines = buffer.split('\n'); buffer = lines.pop() || '';
feed(buf, pend, value) ==
  LET d == decode(pend, value)
      parts == split(buf \o d.text)
  IN [lines |-> Front(parts), buffer |-> Last(parts), pend |-> d.pend]

\* The lengths of the chunk reader.read() can answer with.  The bodies that
\* exercise the framing arrive cut anywhere; the others arrive cut at line
\* breaks and right after the prefix of a frame, empty chunks and the whole
\* rest included.
Cuts(family, s) ==
  IF family = "frames" THEN 0..Len(s)
  ELSE { n \in 0..Len(s) : n = 0 \/ n = Len(s) \/ s[n] = LF \/ s[n] = " " }

\* One turn of the read loop with done = false.
read ==
  /\ pc = "read"
  /\ \E n \in Cuts(inputs, stream), eager \in Eager :
       LET value == SubSeq(stream, 1, n)
           f == feed(buffer, decoder, value)
       IN /\ Install(processLines(HandlerState, f.lines, eager))
          /\ buffer' = f.buffer
          /\ decoder' = f.pend
          /\ stream' = SubSeq(stream, n + 1, Len(stream))
          /\ sent' = sent \o value
  /\ UNCHANGED <<apiStatus, file, isProcessing, elapsedTime, showLog,
                 timerIntervalRef, progressIntervalRef, pc, mounted, intervals,
                 inputs, response>>

\* if (done) { if (buffer.startsWith('data: ')) {...} break; }
finish(s, buf, eager) == processLine(s, buf, eager)

\* The last turn of the read loop setting progress to 100.
readDoneCompletes ==
  /\ pc = "read"
  /\ stream = <<>>
  /\ \E eager \in Eager :
       LET f == feed(buffer, decoder, <<>>)
       IN /\ Install([finish(processLines(HandlerState, f.lines, eager),
                             f.buffer, eager) EXCEPT !.progress = Pct(100)])
          /\ buffer' = f.buffer
          /\ decoder' = f.pend
  /\ finally("done")
  /\ UNCHANGED <<apiStatus, file, elapsedTime, showLog, timerIntervalRef,
                 progressIntervalRef, stream, mounted, inputs, response, sent>>

\* The last turn of the read loop: done = true, value undefined; then finally.
readDone ==
  /\ pc = "read"
  /\ stream = <<>>
  /\ \E eager \in Eager :
       LET f == feed(buffer, decoder, <<>>)
       IN /\ Install(finish(processLines(HandlerState, f.lines, eager),
                            f.buffer, eager))
          /\ buffer' = f.buffer
          /\ decoder' = f.pend
  /\ finally("done")
  /\ UNCHANGED <<apiStatus, file, elapsedTime, showLog, timerIntervalRef,
                 progressIntervalRef, stream, mounted, inputs, response, sent>>

\* reader.read() rejects (the connection breaks): catch, then finally.
readFails ==
  /\ pc = "read"
  /\ \E eager \in Eager :
       Install(catch(HandlerState, "network error", eager))
  /\ finally("failed")
  /\ UNCHANGED <<apiStatus, file, elapsedTime, showLog, timerIntervalRef,
                 progressIntervalRef, buffer, decoder, stream, mounted, inputs, response,
                 sent>>

\* The callback of the elapsed-time interval:
\* setElapsedTime(Math.floor((Date.now() - startTime) / 1000)).
timerTick ==
  /\ \E h \in intervals : h.kind = "timer"
  /\ elapsedTime < MaxElapsed
  /\ elapsedTime' = SetState(elapsedTime, elapsedTime + 1)
  /\ dirty' = SetState(dirty, TRUE)
  /\ UNCHANGED <<apiStatus, file, isProcessing, progress, totalRows, result,
                 downloadUrl, downloadFilename, error, logEntries, showLog,
                 refs, pc, stream, pendingLog, mounted, intervals, objectUrls,
                 inputs, response, history>>

\* React renders: the queued addLogEntry updaters run, each reading
\* logIdRef.current as it is now.
render ==
  /\ mounted
  /\ dirty
  /\ logEntries' = logEntries \o
       [i \in 1..Len(pendingLog) |-> WithId(pendingLog[i], logIdRef)]
  /\ pendingLog' = <<>>
  /\ dirty' = FALSE
  /\ UNCHANGED <<apiStatus, file, isProcessing, progress, totalRows, result,
                 downloadUrl, downloadFilename, error, elapsedTime, showLog,
                 refs, pc, stream, mounted, intervals, objectUrls, inputs, response,
                 history>>

\* The component unmounts: the cleanup of the effect of lines 150-154 runs
\* and React discards the component's state and its queued updates (the
\* state variables go back to their initial values and stay there).  The
\* refs, the run in flight and the browser's object URLs live on.
unmount ==
  /\ mounted
  /\ mounted' = FALSE
  /\ intervals' = clearInterval(intervals, timerIntervalRef)
  /\ apiStatus' = "checking"
  /\ file' = FALSE
  /\ isProcessing' = FALSE
  /\ progress' = 0
  /\ totalRows' = 0
  /\ result' = Null
  /\ downloadUrl' = Null
  /\ downloadFilename' = "resultado.xlsx"
  /\ error' = Null
  /\ elapsedTime' = 0
  /\ logEntries' = <<>>
  /\ showLog' = FALSE
  /\ pendingLog' = <<>>
  /\ dirty' = FALSE
  /\ UNCHANGED <<refs, pc, stream, objectUrls, inputs, response, history>>

Next ==
  \/ checkApiStatus
  \/ checkApiStatusDone
  \/ handleFileSelect
  \/ removeFile
  \/ processFile
  \/ fetchFails
  \/ fetchOk
  \/ read
  \/ readDone
  \/ readFails
  \/ timerTick
  \/ render
  \/ unmount

\* The streaming component against the bodies that exercise the event handler.
Init == InitWith("events")
Spec == Init /\ [][Next]_vars

\* The streaming component against the bodies that exercise the line framing.
InitFrames == InitWith("frames")
SpecFrames == InitFrames /\ [][Next]_vars

\* The streaming component against bodies with a frame that is not JSON.
InitMalformed == InitWith("malformed")
SpecMalformed == InitMalformed /\ [][Next]_vars

\* The streaming component against progress events of all kinds.
InitPercent == InitWith("percent")
SpecPercent == InitPercent /\ [][Next]_vars

\* The streaming component against completions with and without a file.
InitArtifact == InitWith("artifact")
SpecArtifact == InitArtifact /\ [][Next]_vars

-----------------------------------------------------------------------------
(* The fallback component (lines 638-1264).  It has no log, no row count    *)
(* and no stream reader: the variables of those keep their initial values.  *)

streamingOnly == <<totalRows, downloadFilename, logEntries, showLog, logIdRef,
                   buffer, decoder, stream, pendingLog, dirty, sent, frames,
                   handled>>

\* Math.random(), to the resolution of the progress value: r / Scale for r
\* in Random, so 0 <= Math.random() < 1.
Random == 0..(Scale - 1)

Min(a, b) == IF a < b THEN a ELSE b

\* The progress updater without its clamps.
estimateUnclamped(prev, r) ==
  IF prev < Pct(30) THEN prev + (r * 80) \div 10
  ELSE IF prev < Pct(60) THEN prev + (r * 50) \div 10
  ELSE IF prev < Pct(85) THEN prev + (r * 20) \div 10
  ELSE IF prev < Pct(95) THEN prev + (r * 5) \div 10
  ELSE prev + (r * 1) \div 10

\* The updater with the steps of the band below 60 in the band below 85.
estimateWideBand(prev, r) ==
  LET currentProgress ==
        IF prev < Pct(30) THEN prev + (r * 80) \div 10
        ELSE IF prev < Pct(85) THEN prev + (r * 50) \div 10
        ELSE IF prev < Pct(95) THEN prev + (r * 5) \div 10
        ELSE Min(Pct(99), prev + (r * 1) \div 10)
  IN Min(Pct(99), currentProgress)

\* The updater of the progress interval, prev => Math.min(99, currentProgress),
\* with Math.random() = r / Scale.  A step is width * r / Scale percent, that
\* is (r * width) units of 1 / Scale percent, rounded down to a unit.
estimate(prev, r) ==
  LET currentProgress ==
        IF prev < Pct(30) THEN prev + (r * 80) \div 10
        ELSE IF prev < Pct(60) THEN prev + (r * 50) \div 10
        ELSE IF prev < Pct(85) THEN prev + (r * 20) \div 10
        ELSE IF prev < Pct(95) THEN prev + (r * 5) \div 10
        ELSE Min(Pct(99), prev + (r * 1) \div 10)
  IN Min(Pct(99), currentProgress)

\* a ?? b on a field of a parsed object.
Coalesce(obj, field, default) ==
  IF field \in DOMAIN obj THEN obj[field] ELSE default

\* The values of the X-Processing-Stats header when it is present: empty, not
\* JSON, the JSON null, an object with all the counters, one with some, one
\* with none.
StatsHeaders == {<<>>, <<"{">>, <<"null">>, <<"{", "ST">>, <<"{", "SP">>,
                 <<"{", "UK">>}

\* The result left empty when the response has no stats header.
resultNeedsHeader(r) ==
  LET zeros == [total |-> 0, encontrados |-> 0, noEncontrados |-> 0,
                errores |-> 0]
      parsed == JSONparse(r.statsHeader)
  IN IF "statsHeader" \notin DOMAIN r THEN Null
     ELSE IF r.statsHeader = <<>> THEN zeros
     ELSE IF parsed = SyntaxError THEN zeros
     ELSE IF parsed.json = "null" THEN zeros
     ELSE [total |-> Coalesce(parsed.value, "procesadas", 0),
           encontrados |-> Coalesce(parsed.value, "encontradas", 0),
           noEncontrados |-> Coalesce(parsed.value, "no_encontradas", 0),
           errores |-> Coalesce(parsed.value, "errores", 0)]

\* Lines 844-878: the result shown for the stats header of a response;
\* headers.get answers null for a header the response does not have.
resultOf(r) ==
  LET zeros == [total |-> 0, encontrados |-> 0, noEncontrados |-> 0,
                errores |-> 0]
      parsed == JSONparse(r.statsHeader)
  IN IF "statsHeader" \notin DOMAIN r THEN zeros
     ELSE IF r.statsHeader = <<>> THEN zeros
     ELSE IF parsed = SyntaxError THEN zeros
     ELSE IF parsed.json = "null" THEN zeros
     ELSE [total |-> Coalesce(parsed.value, "procesadas", 0),
           encontrados |-> Coalesce(parsed.value, "encontradas", 0),
           noEncontrados |-> Coalesce(parsed.value, "no_encontradas", 0),
           errores |-> Coalesce(parsed.value, "errores", 0)]

\* The answers of POST /procesar-excel: a success without or with a stats
\* header, or a failure whose body is JSON with a detail, JSON with a
\* message, or text.
Responses ==
  [ok : {TRUE}] \cup [ok : {TRUE}, statsHeader : StatsHeaders]
    \cup [ok : {FALSE}, body : {"detail", "message", "text"}]

\* Line 903: errorData?.detail || errorData?.message || `Error ${status}: ...`
errorMessage(body, readable) ==
  IF readable /\ body = "detail" THEN <<"Fila invalida">>
  ELSE IF readable /\ body = "message" THEN <<"Fallo interno">>
  ELSE <<"Error ", "500", ": ", "Internal Server Error">>

checkApiStatusFallback ==
  /\ mounted
  /\ apiStatus # "checking"
  /\ pc = "idle"
  /\ apiStatus' = "checking"
  /\ UNCHANGED <<file, isProcessing, progress, result, downloadUrl, error,
                 elapsedTime, timerIntervalRef, progressIntervalRef, pc,
                 response, mounted, intervals, objectUrls, inputs,
                 streamingOnly>>

checkApiStatusFallbackDone ==
  /\ apiStatus = "checking"
  /\ mounted
  /\ \E st \in {"online", "offline"} : apiStatus' = st
  /\ UNCHANGED <<file, isProcessing, progress, result, downloadUrl, error,
                 elapsedTime, timerIntervalRef, progressIntervalRef, pc,
                 response, mounted, intervals, objectUrls, inputs,
                 streamingOnly>>

\* handleFileSelect / handleDrop with a file of a valid extension.
handleFileSelectFallback ==
  /\ mounted
  /\ file' = TRUE
  /\ result' = Null
  /\ downloadUrl' = Null
  /\ UNCHANGED <<apiStatus, isProcessing, progress, error, elapsedTime,
                 timerIntervalRef, progressIntervalRef, pc, response, mounted,
                 intervals, objectUrls, inputs, streamingOnly>>

\* removeFile of the fallback clearing the intervals of the run as well.
removeFileFallbackCancels ==
  /\ mounted
  /\ file
  /\ file' = FALSE
  /\ result' = Null
  /\ downloadUrl' = Null
  /\ error' = Null
  /\ progress' = 0
  /\ intervals' = clearInterval(clearInterval(intervals, timerIntervalRef),
                                progressIntervalRef)
  /\ UNCHANGED <<apiStatus, isProcessing, elapsedTime, timerIntervalRef,
                 progressIntervalRef, pc, response, mounted,
                 objectUrls, inputs, streamingOnly>>

\* removeFile(); its button is shown whenever a file is picked and is not
\* disabled during a run.
removeFileFallback ==
  /\ mounted
  /\ file
  /\ file' = FALSE
  /\ result' = Null
  /\ downloadUrl' = Null
  /\ error' = Null
  /\ progress' = 0
  /\ UNCHANGED <<apiStatus, isProcessing, elapsedTime, timerIntervalRef,
                 progressIntervalRef, pc, response, mounted, intervals,
                 objectUrls, inputs, streamingOnly>>

\* The fallback run start with a button that stays enabled while processing.
processFileFallbackEnabled ==
  /\ mounted
  /\ file /\ apiStatus = "online"
  /\ Cardinality(objectUrls) < MaxUrls
  /\ isProcessing' = TRUE
  /\ progress' = 0
  /\ elapsedTime' = 0
  /\ result' = Null
  /\ downloadUrl' = Null
  /\ error' = Null
  /\ LET timer == setInterval(intervals, "timer")
         estimator == setInterval(intervals \cup {timer}, "progress")
     IN /\ timerIntervalRef' = timer
        /\ progressIntervalRef' = estimator
        /\ intervals' = intervals \cup {timer, estimator}
  /\ response' = Null
  /\ pc' = "fetch"
  /\ UNCHANGED <<apiStatus, file, mounted, objectUrls, inputs, streamingOnly>>

\* processFile up to `await fetch(...)`; its button is disabled while
\* !file || apiStatus !== 'online' || isProcessing.
processFileFallback ==
  /\ mounted
  /\ file /\ apiStatus = "online"
  /\ ~isProcessing
  /\ Cardinality(objectUrls) < MaxUrls
  /\ isProcessing' = TRUE
  /\ progress' = 0
  /\ elapsedTime' = 0
  /\ result' = Null
  /\ downloadUrl' = Null
  /\ error' = Null
  /\ LET timer == setInterval(intervals, "timer")
         estimator == setInterval(intervals \cup {timer}, "progress")
     IN /\ timerIntervalRef' = timer
        /\ progressIntervalRef' = estimator
        /\ intervals' = intervals \cup {timer, estimator}
  /\ response' = Null
  /\ pc' = "fetch"
  /\ UNCHANGED <<apiStatus, file, mounted, objectUrls, inputs, streamingOnly>>

\* The callback of the elapsed-time interval (lines 801-803).
timerTickFallback ==
  /\ \E h \in intervals : h.kind = "timer"
  /\ elapsedTime < MaxElapsed
  /\ elapsedTime' = SetState(elapsedTime, elapsedTime + 1)
  /\ UNCHANGED <<apiStatus, file, isProcessing, progress, result, downloadUrl,
                 error, timerIntervalRef, progressIntervalRef, pc, response,
                 mounted, intervals, objectUrls, inputs, streamingOnly>>

\* The callback of the progress interval (lines 807-824).
progressTick ==
  /\ \E h \in intervals : h.kind = "progress"
  /\ \E r \in Random : progress' = SetState(progress, estimate(progress, r))
  /\ UNCHANGED <<apiStatus, file, isProcessing, result, downloadUrl, error,
                 elapsedTime, timerIntervalRef, progressIntervalRef, pc,
                 response, mounted, intervals, objectUrls, inputs,
                 streamingOnly>>

\* Only the elapsed-time interval is cleared.
clearTimerOnly == intervals' = clearInterval(intervals, timerIntervalRef)

\* Lines 835-836 and 912-913: both intervals are cleared, the refs stay.
clearBoth ==
  intervals' = clearInterval(clearInterval(intervals, progressIntervalRef),
                             timerIntervalRef)

\* The catch block and the finally block of the fallback processFile.
catchFallback(message) ==
  /\ clearBoth
  /\ error' = SetState(error, [message |-> <<"Error de conexion: ", message>>])
  /\ progress' = SetState(progress, 0)
  /\ isProcessing' = SetState(isProcessing, FALSE)
  /\ pc' = "failed"

\* `await fetch(...)` rejects.
fetchRejected ==
  /\ pc = "fetch"
  /\ catchFallback("Failed to fetch")
  /\ UNCHANGED <<apiStatus, file, result, downloadUrl, elapsedTime,
                 timerIntervalRef, progressIntervalRef, response, mounted,
                 objectUrls, inputs, streamingOnly>>

\* `await fetch(...)` resolves: the intervals are cleared, then the body is
\* awaited (response.blob(), or response.json() / response.text()).
fetchAnswered ==
  /\ pc = "fetch"
  /\ clearBoth
  /\ \E r \in Responses :
       /\ response' = r
       /\ pc' = IF r.ok THEN "blob" ELSE "errorBody"
  /\ UNCHANGED <<reactState, timerIntervalRef, progressIntervalRef, logIdRef,
                 buffer, decoder, stream, pendingLog, dirty, mounted,
                 objectUrls, inputs, history>>

\* `await response.blob()` resolves: lines 840-878, then finally.
blobResolved ==
  /\ pc = "blob"
  /\ LET url == createObjectURL(objectUrls)
     IN /\ objectUrls' = objectUrls \cup {url}
        /\ downloadUrl' = SetState(downloadUrl, url)
  /\ progress' = SetState(progress, Pct(100))
  /\ result' = SetState(result, resultOf(response))
  /\ isProcessing' = SetState(isProcessing, FALSE)
  /\ pc' = "done"
  /\ UNCHANGED <<apiStatus, file, error, elapsedTime, timerIntervalRef,
                 progressIntervalRef, response, mounted, intervals, inputs,
                 streamingOnly>>

\* `await response.blob()` rejects: the catch block.
blobRejected ==
  /\ pc = "blob"
  /\ catchFallback("Failed to fetch")
  /\ UNCHANGED <<apiStatus, file, result, downloadUrl, elapsedTime,
                 timerIntervalRef, progressIntervalRef, response, mounted,
                 objectUrls, inputs, streamingOnly>>

\* Lines 880-909, then finally: the body of the failure is read, or reading
\* it throws inside the inner try.
errorBodyRead ==
  /\ pc = "errorBody"
  /\ \E readable \in BOOLEAN :
       error' = SetState(error, [message |-> errorMessage(response.body, readable),
                                 status |-> 500])
  /\ progress' = SetState(progress, 0)
  /\ isProcessing' = SetState(isProcessing, FALSE)
  /\ pc' = "failed"
  /\ UNCHANGED <<apiStatus, file, result, downloadUrl, elapsedTime,
                 timerIntervalRef, progressIntervalRef, response, mounted,
                 intervals, objectUrls, inputs, streamingOnly>>

\* The component unmounts: the cleanup of lines 771-776 runs and React
\* discards the component's state.
unmountFallback ==
  /\ mounted
  /\ mounted' = FALSE
  /\ clearBoth
  /\ apiStatus' = "checking"
  /\ file' = FALSE
  /\ isProcessing' = FALSE
  /\ progress' = 0
  /\ result' = Null
  /\ downloadUrl' = Null
  /\ error' = Null
  /\ elapsedTime' = 0
  /\ UNCHANGED <<timerIntervalRef, progressIntervalRef, pc, response,
                 objectUrls, inputs, streamingOnly>>

NextFallback ==
  \/ checkApiStatusFallback
  \/ checkApiStatusFallbackDone
  \/ handleFileSelectFallback
  \/ removeFileFallback
  \/ processFileFallback
  \/ timerTickFallback
  \/ progressTick
  \/ fetchRejected
  \/ fetchAnswered
  \/ blobResolved
  \/ blobRejected
  \/ errorBodyRead
  \/ unmountFallback

InitFallback == InitWith("fallback")
SpecFallback == InitFallback /\ [][NextFallback]_vars

\* The streaming component against completions whose file is not base64.
InitDecode == InitWith("decode")
SpecDecode == InitDecode /\ [][Next]_vars

\* The streaming component against counts that pass the announced total.
InitCounts == InitWith("counts")
SpecCounts == InitCounts /\ [][Next]_vars

\* The streaming component against progress events and completions without
\* a file, with a base64 file and with a file that is not base64.
InitComplete == InitWith("complete")
SpecComplete == InitComplete /\ [][Next]_vars

\* The streaming component against progress, row_error and error events.
InitRows == InitWith("rows")
SpecRows == InitRows /\ [][Next]_vars

\* The streaming component against start, progress and row_error events.
InitPerRow == InitWith("perrow")
SpecPerRow == InitPerRow /\ [][Next]_vars

\* The streaming component against progress events and objects whose type
\* is not one of the switch, or is missing.
InitUnknown == InitWith("unknown")
SpecUnknown == InitUnknown /\ [][Next]_vars

\* The streaming component against progress events, progress events
\* without stats and the JSON value null, whose handling throws.
InitThrowing == InitWith("throwing")
SpecThrowing == InitThrowing /\ [][Next]_vars

\* The page mounts one of the two components: the streaming one, against the
\* bodies of events or of completions, or the fallback one.
InitEither ==
  \E family \in {"events", "artifact", "fallback"} : InitWith(family)

NextEither ==
  \/ inputs # "fallback" /\ checkApiStatus
  \/ inputs # "fallback" /\ checkApiStatusDone
  \/ inputs # "fallback" /\ handleFileSelect
  \/ inputs # "fallback" /\ removeFile
  \/ inputs # "fallback" /\ processFile
  \/ inputs # "fallback" /\ fetchFails
  \/ inputs # "fallback" /\ fetchOk
  \/ inputs # "fallback" /\ read
  \/ inputs # "fallback" /\ readDone
  \/ inputs # "fallback" /\ readFails
  \/ inputs # "fallback" /\ timerTick
  \/ inputs # "fallback" /\ render
  \/ inputs # "fallback" /\ unmount
  \/ inputs = "fallback" /\ checkApiStatusFallback
  \/ inputs = "fallback" /\ checkApiStatusFallbackDone
  \/ inputs = "fallback" /\ handleFileSelectFallback
  \/ inputs = "fallback" /\ removeFileFallback
  \/ inputs = "fallback" /\ processFileFallback
  \/ inputs = "fallback" /\ timerTickFallback
  \/ inputs = "fallback" /\ progressTick
  \/ inputs = "fallback" /\ fetchRejected
  \/ inputs = "fallback" /\ fetchAnswered
  \/ inputs = "fallback" /\ blobResolved
  \/ inputs = "fallback" /\ blobRejected
  \/ inputs = "fallback" /\ errorBodyRead
  \/ inputs = "fallback" /\ unmountFallback

SpecEither == InitEither /\ [][NextEither]_vars

\* Either component, with the request and the body settling sooner or
\* later: fetch resolves or rejects, every reader.read() resolves or rejects
\* and the body is finite, response.blob() and response.text() settle.
InitLive == \E family \in {"outcomes", "fallback"} : InitWith(family)

\* A turn of the read loop that takes bytes of the body: a step of `read`.
ReadAdvances ==
  /\ pc = "read"
  /\ \E n \in 1..Len(stream) : stream' = SubSeq(stream, n + 1, Len(stream))

\* The turn after the last byte: reader.read() reports done or rejects,
\* a step of `readDone` or of `readFails`.
ReadSettles ==
  /\ pc = "read"
  /\ stream = <<>>
  /\ pc' \in {"done", "failed"}

Settles ==
  /\ WF_vars(inputs # "fallback" /\ (fetchOk \/ fetchFails))
  /\ WF_stream(ReadAdvances)
  /\ WF_pc(ReadSettles)
  /\ WF_vars(inputs = "fallback" /\ (fetchAnswered \/ fetchRejected))
  /\ WF_vars(inputs = "fallback" /\ (blobResolved \/ blobRejected))
  /\ WF_vars(inputs = "fallback" /\ errorBodyRead)
SpecLive == InitLive /\ [][NextEither]_vars /\ Settles

TypeOK ==
  /\ apiStatus \in {"checking", "online", "offline"}
  /\ file \in BOOLEAN
  /\ isProcessing \in BOOLEAN
  /\ pc \in {"idle", "fetch", "read", "blob", "errorBody", "done", "failed"}
  /\ downloadUrl \in objectUrls \cup {Null}
  /\ timerIntervalRef = Null \/ timerIntervalRef.kind = "timer"

-----------------------------------------------------------------------------
(* Framing of the response body (specification SpecFrames).                 *)

\* The run as processFile leaves it before the first read.
RunStart ==
  [HandlerState EXCEPT !.progress = 0, !.totalRows = 0, !.result = Null,
                       !.error = Null, !.downloadUrl = Null,
                       !.logEntries = <<>>, !.pendingLog = <<>>,
                       !.logIdRef = 1, !.dirty = TRUE, !.frames = <<>>,
                       !.handled = <<>>]

\* The read loop on `bytes` delivered as one chunk, and, with done, the turn
\* of the loop that sees the end of the stream.
OneChunk(bytes, done) ==
  LET f == feed(<<>>, FALSE, bytes)
      s1 == processLines(RunStart, f.lines, FALSE)
      g == feed(f.buffer, f.pend, <<>>)
  IN IF done
       THEN [h |-> finish(processLines(s1, g.lines, FALSE), g.buffer, FALSE),
             buffer |-> g.buffer, pend |-> g.pend]
       ELSE [h |-> s1, buffer |-> f.buffer, pend |-> f.pend]

\* C1 - Chunk-boundary invariance: however the bytes sent so far were cut
\* into chunks, the frames and the values handed to handleSSEEvent, the
\* pending buffer and the decoder state are those of the same bytes
\* delivered as one chunk; at the end of the stream, those of the one chunk
\* followed by the end-of-stream turn.
C1_ChunkInvariance ==
  pc \in {"read", "done"} =>
    LET o == OneChunk(sent, pc = "done")
    IN /\ frames = o.h.frames
       /\ handled = o.h.handled
       /\ buffer = o.buffer
       /\ decoder = o.pend

\* A chunk ended inside a two-byte character of an unfinished line, after a
\* frame was emitted.
C1_Witness ==
  /\ pc = "read"
  /\ decoder
  /\ buffer # <<>>
  /\ frames # <<>>

\* The text of one line of the body: its bytes decoded; an incomplete
\* character before the line break is replaced, one at the end of the body
\* is never flushed out of the decoder.
TextOf(line, terminated) ==
  LET d == decode(FALSE, line)
  IN IF terminated /\ d.pend THEN d.text \o <<Replacement>> ELSE d.text

\* The lines of the bytes sent so far that a correct decoder emits: every
\* terminated line that begins with the prefix and, at the end of the
\* stream, the unterminated rest when it begins with the prefix.
ExpectedFrames(bytes, done) ==
  LET parts == split(bytes)
      term == [i \in 1..(Len(parts) - 1) |-> TextOf(parts[i], TRUE)]
      all == IF done THEN Append(term, TextOf(Last(parts), FALSE)) ELSE term
  IN SelectSeq(all, LAMBDA l : startsWith(l, Prefix))

\* C2 - No duplication, no loss, order preserved: the frames emitted are,
\* one for one and in order, the lines of the input that begin with the
\* prefix; nothing is emitted twice and only lines without the prefix are
\* dropped.
C2_NoDuplicationNoLoss ==
  pc \in {"read", "done"} => frames = ExpectedFrames(sent, pc = "done")

\* The stream ended after two frames and a terminated line that was dropped.
C2_Witness ==
  /\ pc = "done"
  /\ Len(frames) >= 2
  /\ \E i \in 1..(Len(split(sent)) - 1) :
       ~startsWith(TextOf(split(sent)[i], TRUE), Prefix)

\* The values JSON.parse gives for the frames that are JSON, in order.
RECURSIVE ParsedOf(_)
ParsedOf(fs) ==
  IF fs = <<>> THEN <<>>
  ELSE LET parsed == JSONparse(slice(Head(fs), 6))
       IN IF parsed.threw = "no"
            THEN <<[x \in DOMAIN parsed \ {"threw"} |-> parsed[x]]>>
                   \o ParsedOf(Tail(fs))
            ELSE ParsedOf(Tail(fs))

\* C3 - Prefix filtering: a terminated line is a frame exactly when its bytes
\* begin with 'data: '; at the end of the stream the unterminated rest is the
\* last frame exactly when it begins with 'data: '; the handler sees the
\* frames only, and a line without the prefix changes nothing (here the only
\* line that would set totalRows or add a log entry is one without prefix).
C3_PrefixFiltering ==
  pc \in {"read", "done"} =>
    LET parts == split(sent)
        rest == Last(parts)
        matching == { i \in 1..(Len(parts) - 1) : startsWith(parts[i], Prefix) }
        final == pc = "done" /\ startsWith(rest, Prefix)
    IN /\ Len(frames) = Cardinality(matching) + (IF final THEN 1 ELSE 0)
       /\ \A i \in 1..Len(frames) : startsWith(frames[i], Prefix)
       /\ final => frames # <<>> /\ Last(frames) = buffer
       /\ handled = ParsedOf(frames)
       /\ totalRows = 0
       /\ logIdRef = 1

\* The stream ended with an unterminated frame, after a line that holds the
\* prefix but does not begin with it.
C3_Witness ==
  /\ pc = "done"
  /\ startsWith(Last(split(sent)), Prefix)
  /\ \E i \in 1..(Len(split(sent)) - 1) :
       /\ includes(split(sent)[i], Prefix)
       /\ ~startsWith(split(sent)[i], Prefix)

-----------------------------------------------------------------------------
(* The event handler (specifications Spec, SpecMalformed, SpecPercent,      *)
(* SpecArtifact).                                                           *)

\* The component shows the run that ended: it is mounted, every queued
\* update is rendered, and no file was picked since the run started
\* (resetState hides the log, processFile shows it).
Settled == mounted /\ showLog /\ ~dirty

LogTypes == [i \in 1..Len(logEntries) |-> logEntries[i].type]

\* The body of the end-to-end example: start, progress, complete.
ExampleBody == Join(<<Frame("S2"), Frame("P12"), Frame("C")>>)

ExampleRan == pc = "done" /\ sent = ExampleBody /\ Settled

ExampleState ==
  /\ ~isProcessing
  /\ totalRows = 2
  /\ result = [total |-> 2, encontrados |-> 1, noEncontrados |-> 1, errores |-> 0]
  /\ error = Null
  /\ progress = Pct(100)

\* C4 as stated - the example run ends completed with totalRows 2, counts
\* 1/1/0, progress 100 and a log of 3 entries in arrival order.
C4_EndToEnd_Original ==
  ExampleRan => ExampleState /\ LogTypes = <<"info", "found", "complete">>

\* C4 as amended - the example run ends completed with totalRows 2, counts
\* 1/1/0, progress 100 and a log of 4 entries: the entry processFile adds
\* when the run starts, then one entry per frame in arrival order.
C4_EndToEnd ==
  ExampleRan =>
    /\ ExampleState
    /\ LogTypes = <<"info", "info", "found", "complete">>
    /\ logEntries[1].message[1] = "Iniciando procesamiento de "
    /\ logEntries[2].message[1] = "Archivo cargado: "

C4_Witness == ExampleRan /\ result # Null /\ Len(logEntries) = 4

\* The state the events handed to the handler lead to from the start of the
\* run, one after the other.
RECURSIVE Replay(_, _)
Replay(s, events) ==
  IF events = <<>> THEN s
  ELSE Replay(handleSSEEvent(s, Head(events), FALSE), Tail(events))

IsJson(frame) == JSONparse(slice(frame, 6)).threw = "no"

\* C5 - Malformed JSON resilience: a frame that is not JSON leaves no trace:
\* every frame that is JSON, before or after it, in the same chunk or a
\* later one, is handed to the handler, and progress, totalRows, result,
\* error, the id counter and the log are those the handled events alone
\* lead to; the read loop goes on (error stays what the events make it).
C5_MalformedJson ==
  (pc \in {"read", "done"} /\ mounted /\ showLog) =>
    LET s == Replay([RunStart EXCEPT !.handled = <<>>], handled)
    IN /\ Len(handled) = Cardinality({ i \in 1..Len(frames) : IsJson(frames[i]) })
       /\ progress = s.progress
       /\ totalRows = s.totalRows
       /\ result = s.result
       /\ error = s.error
       /\ logIdRef = s.logIdRef
       /\ Len(logEntries) + Len(pendingLog) = 1 + Len(s.pendingLog)

\* A frame that is not JSON was followed by a frame that was handled.
C5_Witness ==
  /\ pc = "done" /\ mounted /\ showLog
  /\ \E i, j \in 1..Len(frames) :
       i < j /\ ~IsJson(frames[i]) /\ IsJson(frames[j])
  /\ totalRows = 2

\* C7 as stated - Artifact exclusivity: at most one object URL created for a
\* result blob is live at any time.
C7_ArtifactExclusivity == Cardinality(objectUrls) <= 1

\* The progress the claim gives for the events handled so far.
RECURSIVE ClaimedProgress(_, _)
ClaimedProgress(p, events) ==
  IF events = <<>> THEN p
  ELSE LET e == Head(events)
           q == IF e.json = "object" /\ "type" \in DOMAIN e.value
                     /\ e.value.type = "progress" /\ "stats" \in DOMAIN e.value
                  THEN IF e.value.total > 0
                         THEN Pct((200 * e.value.stats.procesadas + e.value.total)
                                    \div (2 * e.value.total))
                         ELSE p
                  ELSE IF e.json = "object" /\ "type" \in DOMAIN e.value
                            /\ e.value.type = "complete"
                    THEN Pct(100)
                  ELSE p
       IN ClaimedProgress(q, Tail(events))

\* C8 as stated - Percentage derivation: a progress event with total > 0 sets
\* progress to round(procesadas / total * 100); one with total = 0 leaves
\* progress as it was.
C8_PercentageDerivation ==
  (pc \in {"read", "done"} /\ mounted /\ showLog) =>
    progress = ClaimedProgress(0, handled)

\* C9 as stated - Progress range: progress is a number in [0,100] in every
\* reachable state.
C9_ProgressRange == progress >= 0 /\ progress <= Pct(100)

\* C10 as stated - Log sequence ids: the ids of the log, in list order, are
\* strictly increasing.
C10_LogIdsIncreasing ==
  \A i, j \in 1..Len(logEntries) : i < j => logEntries[i].id < logEntries[j].id


-----------------------------------------------------------------------------
(* The progress estimator of the fallback component (SpecFallback).         *)

\* C6: every tick of the fallback progress estimator, from a value in
\* [0, 99], leaves the progress at least what it was and at most 99; and the
\* progress is 100 only once the successful response has been handled (the
\* run returned through the success branch and nothing reset it since).
C6_MonotonicBoundedProgress ==
  /\ [][progressTick /\ progress <= Pct(99)
          => progress' >= progress /\ progress' <= Pct(99)]_vars
  /\ [](progress = Pct(100) => pc = "done" /\ response # Null /\ response.ok)
  /\ [](pc \in {"fetch", "blob", "errorBody"} => progress <= Pct(99))

\* The estimator has ticked its way up to the cap while the request is still
\* in flight, where a further tick would pass 99 were it not clamped.
C6_Witness ==
  /\ pc = "fetch"
  /\ isProcessing
  /\ progress = Pct(99)
  /\ progressIntervalRef \in intervals

-----------------------------------------------------------------------------
(* Progress and phases of a streaming run (specification Spec).             *)

\* C11 as stated - Progress monotonicity in a streaming run: no turn of the
\* read loop, whatever events it handles, leaves progress lower than it was
\* (resets are made by other handlers: a file picked, a run started, the
\* component unmounted).
C11_ProgressMonotonic ==
  [][(read \/ readDone) => progress' >= progress]_vars

-----------------------------------------------------------------------------
(* The intervals of a run (specification SpecEither).                       *)

\* C12 - Guaranteed timer cancellation: whenever no run is in flight (none
\* started yet, the last one returned normally or through its catch block)
\* and whenever the component is unmounted, no interval is live; so a tick of
\* the elapsed-time interval or of the progress interval only ever happens
\* in a mounted component with a run in flight.
C12_TimersCancelled ==
  /\ []((pc \in {"idle", "done", "failed"} \/ ~mounted) => intervals = {})
  /\ [][(timerTick \/ timerTickFallback \/ progressTick)
          => mounted /\ pc \notin {"idle", "done", "failed"}]_vars

\* A run whose elapsed-time interval had ticked ended through the catch
\* block.
C12_Witness ==
  /\ pc = "failed"
  /\ mounted
  /\ elapsedTime > 0
  /\ timerIntervalRef # Null
  /\ timerIntervalRef \notin intervals

-----------------------------------------------------------------------------
(* The fallback's estimator against its response handler (SpecFallback).    *)

\* C13 - No estimator/completion race: the progress interval ticks only
\* while the fetch is pending; it is no longer live once the response is
\* being handled; the handler then installs 100 (success) or 0 (failure),
\* and afterwards progress is that terminal value (or the 0 of removeFile),
\* never an estimate.
C13_NoEstimatorRace ==
  /\ [][progressTick => pc = "fetch"]_vars
  /\ [](pc \in {"blob", "errorBody", "done", "failed"}
          => \A h \in intervals : h.kind # "progress")
  /\ [][(blobResolved /\ mounted) => progress' = Pct(100)]_vars
  /\ [][((errorBodyRead \/ fetchRejected \/ blobRejected) /\ mounted)
          => progress' = 0]_vars
  /\ [](pc = "failed" /\ mounted => progress = 0)
  /\ [](pc = "done" /\ mounted => progress \in {0, Pct(100)})

\* The response arrived after the estimator had ticked: its interval is
\* cleared and the terminal value is not installed yet.
C13_Witness ==
  /\ pc = "blob"
  /\ mounted
  /\ progress > 0
  /\ progressIntervalRef # Null
  /\ progressIntervalRef \notin intervals

-----------------------------------------------------------------------------
(* Phases of a streaming run (specification Spec).                          *)

\* A complete or an error event was handled in the run in flight.
Terminal ==
  \E i \in 1..Len(handled) :
    /\ handled[i].json = "object"
    /\ "type" \in DOMAIN handled[i].value
    /\ handled[i].value.type \in {"complete", "error"}

\* C14 as stated - Terminal phases: once a complete or an error event was
\* handled, no later turn of the read loop of the same run changes result,
\* error or progress.
C14_TerminalPhases ==
  [][(Terminal /\ (read \/ readDone)) => UNCHANGED <<result, error, progress>>]_vars

-----------------------------------------------------------------------------
(* Transport failures (specification SpecEither).                           *)

\* The log with the queued entries at its end, ids left out (a queued entry
\* has none yet).
LogOf(entries, queued) ==
  [i \in 1..Len(entries) |->
     [x \in DOMAIN entries[i] \ {"id"} |-> entries[i][x]]] \o queued

\* C15 - Transport failure is fatal and preserves what was collected: when
\* the request is rejected or answers a non-success status or a read fails,
\* a mounted component ends the run with the message in error, isProcessing
\* false and no interval live; the streaming component appends one error
\* entry after the entries collected so far and leaves them, totalRows,
\* result and progress as they were.
C15_TransportFailure ==
  /\ [][((fetchFails \/ readFails) /\ mounted) =>
          /\ pc' = "failed"
          /\ error' # Null
          /\ ~isProcessing'
          /\ intervals' = {}
          /\ LogOf(logEntries', pendingLog')
               = Append(LogOf(logEntries, pendingLog),
                        [type |-> "error",
                         message |-> <<"Error: ", error'.message[1]>>])
          /\ UNCHANGED <<totalRows, result, progress>>]_vars
  /\ [][((fetchRejected \/ blobRejected \/ errorBodyRead) /\ mounted) =>
          /\ pc' = "failed"
          /\ error' # Null
          /\ ~isProcessing'
          /\ intervals' = {}]_vars

\* A read failed after the start event and a row had been logged.
C15_Witness ==
  /\ pc = "failed"
  /\ mounted /\ showLog
  /\ inputs = "events"
  /\ totalRows = 2
  /\ progress = Pct(50)
  /\ error = [message |-> <<"network error">>]
  /\ Len(LogOf(logEntries, pendingLog)) = 4

-----------------------------------------------------------------------------
(* Completions (specifications SpecDecode and SpecArtifact).                *)

\* A complete event whose file atob rejects was handled in the run in flight.
DecodeFailed ==
  \E i \in 1..Len(handled) :
    /\ handled[i].json = "object"
    /\ "type" \in DOMAIN handled[i].value
    /\ handled[i].value.type = "complete"
    /\ "file" \in DOMAIN handled[i].value
    /\ atobThrows(handled[i].value.file)

\* C16 as stated - Base64 decode failure: the run keeps the counts of the
\* event and progress 100, no artifact is installed, error stays empty, and
\* the state shows the failure: here, where the server sends nothing else
\* that could, an entry of the log that is neither an info nor a completion
\* entry.
C16_DecodeFailureSurfaced ==
  (pc \in {"read", "done"} /\ mounted /\ showLog /\ DecodeFailed) =>
    /\ result = [total |-> 2, encontrados |-> 1, noEncontrados |-> 1,
                 errores |-> 0]
    /\ progress = Pct(100)
    /\ downloadUrl = Null
    /\ error = Null
    /\ \E i \in 1..Len(LogOf(logEntries, pendingLog)) :
         LogOf(logEntries, pendingLog)[i].type \notin {"info", "complete"}

\* What does hold after the decode failure: counts, progress, no artifact,
\* no error.
DecodeFailureKept ==
  (pc \in {"read", "done"} /\ mounted /\ showLog /\ DecodeFailed) =>
    /\ result = [total |-> 2, encontrados |-> 1, noEncontrados |-> 1,
                 errores |-> 0]
    /\ progress = Pct(100)
    /\ downloadUrl = Null
    /\ error = Null
    /\ objectUrls = {}

-----------------------------------------------------------------------------
(* The success path of the fallback component (SpecFallback).               *)

-----------------------------------------------------------------------------
(* Counts of a streaming run (specification SpecCounts).                    *)

\* C18 as stated - Processed never exceeds total: once a start event has set
\* totalRows, the processed count the state holds (the total of the result,
\* taken from the complete event) is at most totalRows.
C18_ProcessedWithinTotal ==
  (pc \in {"read", "done"} /\ mounted /\ showLog /\ totalRows > 0
     /\ result # Null) => result.total <= totalRows


\* The entry processFile logs as it starts a run.
RunStartEntry ==
  [type |-> "info",
   message |-> <<"Iniciando procesamiento de ", "file.name", "...">>]

\* C19: starting a run resets progress, elapsed time, total rows, result,
\* error and the artifact handle, empties the log and restarts the log id
\* counter before any event of the new run is handled: after the start the
\* log holds only the new run's own first entry, numbered 1, no frame has
\* been received or handled, and nothing of the previous run is left; the
\* fallback run start resets its own fields the same way.
C19_RunStartReset ==
  /\ [][processFile =>
          /\ progress' = 0 /\ elapsedTime' = 0 /\ totalRows' = 0
          /\ result' = Null /\ error' = Null /\ downloadUrl' = Null
          /\ LogOf(logEntries', pendingLog') = <<RunStartEntry>>
          /\ logIdRef' = 1
          /\ sent' = <<>> /\ frames' = <<>> /\ handled' = <<>>
          /\ isProcessing']_vars
  /\ [][processFileFallback =>
          /\ progress' = 0 /\ elapsedTime' = 0
          /\ result' = Null /\ error' = Null /\ downloadUrl' = Null
          /\ isProcessing']_vars

\* A second run has started after a run that installed an artifact: the
\* handle is gone and the log restarted.
C19_Witness ==
  /\ pc = "fetch" /\ mounted /\ inputs = "artifact"
  /\ objectUrls # {}
  /\ downloadUrl = Null /\ result = Null /\ progress = 0
  /\ logIdRef = 1


-----------------------------------------------------------------------------
(* The complete event (SpecComplete).                                       *)

\* A step of the read loop of a mounted component that handles exactly one
\* event, the complete event `data`.
CompleteHandled(data) ==
  /\ mounted
  /\ handled' = Append(handled, [json |-> "object", value |-> data])
  /\ read \/ readDone

\* What every complete event does: the counts of the event, progress 100
\* and one completion entry at the end of the log.
CompleteCommon(data) ==
  /\ result' = [total |-> data.stats.procesadas,
                encontrados |-> data.stats.encontradas,
                noEncontrados |-> data.stats.no_encontradas,
                errores |-> data.stats.errores]
  /\ progress' = Pct(100)
  /\ LogOf(logEntries', pendingLog') =
       Append(LogOf(logEntries, pendingLog),
              [type |-> "complete",
               message |-> <<"Completado en ", data.elapsed>>])

\* A new object URL is the handle, under the filename of the event.
ArtifactInstalled(data) ==
  /\ downloadUrl' \notin objectUrls
  /\ objectUrls' = objectUrls \cup {downloadUrl'}
  /\ downloadFilename' = data.filename

\* C20 as stated - Complete event: the result is the stats of the event,
\* progress is 100, one completion entry is appended, and an artifact with
\* the event's filename is installed if and only if the event carries a file
\* payload; without one the handle is unchanged.
C20_CompleteEvent_Original ==
  [][\A d \in {"C", "CF", "CB"} :
       CompleteHandled(Documents[d]) =>
         /\ CompleteCommon(Documents[d])
         /\ IF "file" \in DOMAIN Documents[d]
              THEN ArtifactInstalled(Documents[d])
              ELSE UNCHANGED <<downloadUrl, downloadFilename, objectUrls>>]_vars

\* C20 - Complete event: the result is the stats of the event, whatever
\* entries the log holds, progress is 100, one completion entry is appended,
\* and an artifact with the event's filename is installed if and only if the
\* event carries a file payload that decodes as base64; otherwise the handle,
\* the filename and the set of live object URLs are unchanged.
C20_CompleteEvent ==
  [][\A d \in {"C", "CF", "CB"} :
       CompleteHandled(Documents[d]) =>
         /\ CompleteCommon(Documents[d])
         /\ IF "file" \in DOMAIN Documents[d] /\ ~atobThrows(Documents[d].file)
              THEN ArtifactInstalled(Documents[d])
              ELSE UNCHANGED <<downloadUrl, downloadFilename, objectUrls>>]_vars

\* After a progress event, a completion with a base64 file and one whose
\* file is not base64: the artifact of the first completion is the handle.
C20_Witness ==
  /\ mounted /\ inputs = "complete"
  /\ Len(handled) = 3
  /\ handled[1].value = Documents.P12
  /\ handled[2].value = Documents.CF
  /\ handled[3].value = Documents.CB
  /\ result = [total |-> 2, encontrados |-> 1, noEncontrados |-> 1,
               errores |-> 0]
  /\ progress = Pct(100)
  /\ downloadUrl \in objectUrls
  /\ Cardinality(objectUrls) = 1
  /\ downloadFilename = "geocodificado.xlsx"
  /\ Len(LogOf(logEntries, pendingLog)) = 4


-----------------------------------------------------------------------------
(* Error and per-row events (SpecRows).                                     *)

\* A step of the read loop of a mounted component that handles exactly one
\* event, `data`.
OneHandled(data) ==
  /\ mounted
  /\ handled' = Append(handled, [json |-> "object", value |-> data])
  /\ read \/ readDone

\* C21 - Error event: handling an error event appends exactly one error
\* entry with the event's message after the entries of the log, stores the
\* message in the error state and leaves the earlier entries, totalRows,
\* progress and result unchanged.
C21_ErrorEvent ==
  [][OneHandled(Documents.ER) =>
       /\ LogOf(logEntries', pendingLog') =
            Append(LogOf(logEntries, pendingLog),
                   [type |-> "error", message |-> <<Documents.ER.message>>])
       /\ error' = [message |-> <<Documents.ER.message>>]
       /\ UNCHANGED <<totalRows, progress, result>>]_vars

\* An error event was handled after a progress and a row_error event: three
\* entries follow the entry of the run start, and progress is still 50.
C21_Witness ==
  /\ mounted /\ inputs = "rows" /\ pc = "read"
  /\ Len(handled) = 3
  /\ handled[1].value = Documents.P12
  /\ handled[2].value = Documents.RE
  /\ handled[3].value = Documents.ER
  /\ error = [message |-> <<"fallo del servidor">>]
  /\ progress = Pct(50)
  /\ result = Null
  /\ Len(LogOf(logEntries, pendingLog)) = 4
  /\ LogOf(logEntries, pendingLog)[4].type = "error"


-----------------------------------------------------------------------------
(* Per-row events (SpecPerRow).  The component keeps no counters: the       *)
(* counts it shows while streaming are taken from the log (lines 495-497).  *)

\* logEntries.filter(e => e.type === kind).length, over the entries of rows.
RowCount(log, kind) ==
  Cardinality({ i \in 1..Len(log) :
                  "row" \in DOMAIN log[i] /\ log[i].type = kind })

ProcessedCount(log) ==
  RowCount(log, "found") + RowCount(log, "not_found") + RowCount(log, "error")

\* The log entry of a per-row event.
RowEntry(data) ==
  IF data.type = "row_error"
    THEN [type |-> "error", row |-> data.row, message |-> <<data.error>>]
    ELSE [type |-> IF data.status = "found" THEN "found" ELSE "not_found",
          row |-> data.row, direccion |-> data.direccion,
          municipio |-> data.municipio, cp |-> data.cp]

\* C22 as stated - Per-row events: once the total is known, each progress
\* and each row_error event appends exactly one log entry of its kind, which
\* raises the processed count and the matching counter by one and no other
\* counter, and progress is recomputed as round(processed / totalRows * 100).
C22_PerRowEvents ==
  [][\A d \in {"P12", "RE"} :
       (OneHandled(Documents[d]) /\ totalRows > 0) =>
         LET log == LogOf(logEntries, pendingLog)
             next == LogOf(logEntries', pendingLog')
         IN /\ next = Append(log, RowEntry(Documents[d]))
            /\ ProcessedCount(next) = ProcessedCount(log) + 1
            /\ \A kind \in {"found", "not_found", "error"} :
                 RowCount(next, kind) =
                   RowCount(log, kind)
                     + (IF kind = RowEntry(Documents[d]).type THEN 1 ELSE 0)
            /\ progress' = Percent(ProcessedCount(next), totalRows)]_vars

\* What the code does on a per-row event: one entry of the event's kind,
\* and progress from the event's own stats for a progress event, unchanged
\* for a row_error event.
PerRowEventsKept ==
  [][\A d \in {"P12", "RE"} :
       OneHandled(Documents[d]) =>
         /\ LogOf(logEntries', pendingLog') =
              Append(LogOf(logEntries, pendingLog), RowEntry(Documents[d]))
         /\ progress' = IF d = "RE" THEN progress
                        ELSE Percent(Documents[d].stats.procesadas,
                                     Documents[d].total)]_vars


\* C23 - row_error is non-fatal: handling a row_error event appends one
\* entry with the event's row and message, leaves the error state as it was
\* and the run reading and processing, with its ticker; and every frame the
\* stream delivers, those after a row_error included, is handled in order.
C23_RowErrorNonFatal ==
  /\ [][OneHandled(Documents.RE) =>
          /\ LogOf(logEntries', pendingLog') =
               Append(LogOf(logEntries, pendingLog),
                      [type |-> "error", row |-> Documents.RE.row,
                       message |-> <<Documents.RE.error>>])
          /\ UNCHANGED <<error, isProcessing, intervals>>
          /\ isProcessing
          /\ pc' = "read"]_vars
  /\ [](pc \in {"read", "done"} =>
          handled = ParsedOf(ExpectedFrames(sent, pc = "done")))

\* The stream ended after a start, a row_error and a progress event: all
\* three were handled, there is no error and progress is 50.
C23_Witness ==
  /\ mounted /\ inputs = "perrow" /\ pc = "done"
  /\ Len(handled) = 3
  /\ handled[1].value = Documents.S2
  /\ handled[2].value = Documents.RE
  /\ handled[3].value = Documents.P12
  /\ error = Null
  /\ ~isProcessing
  /\ progress = Pct(50)
  /\ Len(LogOf(logEntries, pendingLog)) = 4


-----------------------------------------------------------------------------
(* Events the switch has no case for (SpecUnknown).                         *)

\* C24 - Unknown discriminator: a JSON object whose type is none of start,
\* progress, row_error, error and complete, or that has no type, leaves
\* progress, totalRows, result, error, the log, its id counter and the
\* artifact unchanged, and the run goes on reading.
C24_UnknownDiscriminator ==
  [][\A d \in {"UK", "NT"} :
       OneHandled(Documents[d]) =>
         /\ UNCHANGED <<progress, totalRows, result, error, downloadUrl,
                        downloadFilename, objectUrls, logIdRef>>
         /\ LogOf(logEntries', pendingLog') = LogOf(logEntries, pendingLog)
         /\ UNCHANGED <<isProcessing, intervals>>
         /\ isProcessing
         /\ pc' = "read"]_vars

\* A progress event, then an object of an unknown type and one without a
\* type: progress is still 50 and the log holds the entries of the run
\* start and of the progress event.
C24_Witness ==
  /\ mounted /\ inputs = "unknown" /\ pc = "read"
  /\ Len(handled) = 3
  /\ handled[1].value = Documents.P12
  /\ handled[2].value = Documents.UK
  /\ handled[3].value = Documents.NT
  /\ progress = Pct(50)
  /\ error = Null /\ result = Null
  /\ Len(LogOf(logEntries, pendingLog)) = 2
  /\ logIdRef = 2


-----------------------------------------------------------------------------
(* The bands of the fallback's estimator (SpecFallback).                    *)

\* A step of s units of 1 / Scale percent is below the width of the band of
\* p: 8 in [0, 30), 5 in [30, 60), 2 in [60, 85), 0.5 in [85, 95), 0.1 in
\* [95, 99].
InBand(p, s) ==
  /\ s >= 0
  /\ IF p < Pct(30) THEN s < 8 * Scale
     ELSE IF p < Pct(60) THEN s < 5 * Scale
     ELSE IF p < Pct(85) THEN s < 2 * Scale
     ELSE IF p < Pct(95) THEN 2 * s < Scale
     ELSE 10 * s < Scale

\* C25 - Banded step policy: a tick of the estimator from p in [0, 99] gives
\* min(99, p + s) for a step s that is at least 0 and below the width of the
\* band of p.
C25_BandedStepPolicy ==
  [][(progressTick /\ mounted /\ progress >= 0 /\ progress <= Pct(99)) =>
       \E s \in 0..(8 * Scale) :
         /\ InBand(progress, s)
         /\ progress' = Min(Pct(99), progress + s)]_vars

\* The estimator has reached the band [85, 95) in steps that are not whole
\* percents, with the request still in flight.
C25_Witness ==
  /\ pc = "fetch" /\ mounted
  /\ progressIntervalRef \in intervals
  /\ progress > Pct(85) /\ progress < Pct(95)
  /\ progress % Scale # 0


-----------------------------------------------------------------------------
(* Termination of a run (SpecLive).                                         *)

\* A call of processFile has not returned yet.
InFlight == pc \notin {"idle", "done", "failed"}

\* C26 - Run termination: when the request settles and the reader reports
\* completion or fails, every call of processFile returns, and a mounted
\* component that is processing gets isProcessing false (or is unmounted,
\* which discards its state), whatever the outcome of the run.
C26_RunTermination ==
  /\ InFlight ~> ~InFlight
  /\ (mounted /\ isProcessing) ~> (~mounted \/ ~isProcessing)
  /\ [](mounted /\ ~InFlight => ~isProcessing)

\* A run has ended normally after a frame whose handler threw and an error
\* event.
C26_Witness ==
  /\ mounted /\ inputs = "outcomes" /\ pc = "done"
  /\ ~isProcessing
  /\ Len(handled) = 2
  /\ handled[1].value = Documents.PX
  /\ handled[2].value = Documents.ER
  /\ error # Null


-----------------------------------------------------------------------------
(* Frames whose handling throws (SpecThrowing).                             *)

ErrorEntries(log) ==
  Cardinality({ i \in 1..Len(log) : log[i].type = "error" })

\* The handling of the event throws a TypeError.
Throws(event) ==
  \/ event.json = "null"
  \/ event.json = "object" /\ "stats" \notin DOMAIN event.value

\* C27 - Handler exception isolation: a turn of the read loop that handles
\* a frame whose handling throws leaves the error state as it was, adds no
\* error entry to the log and leaves the run reading (or ends it normally
\* at the end of the stream); and the events handled are, in order, all the
\* frames delivered, those after the throwing frame included.
C27_HandlerExceptionIsolation ==
  /\ [][((read \/ readDone) /\ mounted
           /\ \E i \in (Len(handled) + 1)..Len(handled') : Throws(handled'[i]))
          => /\ UNCHANGED error
             /\ ErrorEntries(LogOf(logEntries', pendingLog'))
                  = ErrorEntries(LogOf(logEntries, pendingLog))
             /\ pc' \in {"read", "done"}]_vars
  /\ [](pc \in {"read", "done"} =>
          handled = ParsedOf(ExpectedFrames(sent, pc = "done")))
  /\ [](pc \in {"read", "done"} /\ mounted => error = Null)

\* The frames null, progress without stats and progress arrived: all three
\* were handled, the last one set progress and logged its row, and there is
\* no error.
C27_Witness ==
  /\ mounted /\ inputs = "throwing" /\ pc = "read"
  /\ Len(handled) = 3
  /\ handled[1].json = "null"
  /\ handled[2].json = "object" /\ handled[2].value = Documents.PX
  /\ handled[3].json = "object" /\ handled[3].value = Documents.P12
  /\ progress = Pct(50)
  /\ error = Null
  /\ Len(LogOf(logEntries, pendingLog)) = 2


-----------------------------------------------------------------------------
(* One run at a time (SpecEither).                                          *)

Live(kind) == { h \in intervals : h.kind = kind }

\* C28 - Single run in flight: a run starts only with a file selected, the
\* API online and isProcessing false, and then no run is in flight and no
\* interval is live; while a call of processFile has not returned, a mounted
\* component is processing, which disables the start; so there is at most
\* one elapsed-time interval and at most one progress interval at any time.
C28_SingleRunInFlight ==
  /\ [][(processFile \/ processFileFallback) =>
          /\ file /\ apiStatus = "online" /\ ~isProcessing
          /\ ~InFlight
          /\ intervals = {}]_vars
  /\ [](mounted /\ InFlight => isProcessing)
  /\ [](Cardinality(Live("timer")) <= 1 /\ Cardinality(Live("progress")) <= 1)

\* A second fallback run is in flight, with its two intervals, after a run
\* that installed an artifact.
C28_Witness ==
  /\ mounted /\ inputs = "fallback" /\ pc = "fetch"
  /\ isProcessing
  /\ objectUrls # {}
  /\ Cardinality(Live("timer")) = 1
  /\ Cardinality(Live("progress")) = 1


-----------------------------------------------------------------------------
(* The end of a stream without a terminal event (specification Spec).       *)

\* The progress the last progress event handled gives, 0 when there is none.
RECURSIVE LastProgress(_)
LastProgress(events) ==
  IF events = <<>> THEN 0
  ELSE LET e == events[Len(events)]
       IN IF e.json = "object" /\ "type" \in DOMAIN e.value
             /\ e.value.type = "progress" /\ "stats" \in DOMAIN e.value
            THEN Percent(e.value.stats.procesadas, e.value.total)
          ELSE LastProgress(SubSeq(events, 1, Len(events) - 1))

\* C29 - Stream closed without a terminal event: when the reader reports
\* done and no complete or error event was handled, a mounted component
\* ends the run not processing, with no result, no error and no artifact;
\* the log stays as it was, without a completion entry, and progress stays
\* as it was: the value of the last progress event, unless a file was picked
\* meanwhile.
C29_ClosedWithoutTerminal ==
  [][(readDone /\ mounted /\ ~Terminal) =>
       /\ pc' = "done"
       /\ ~isProcessing'
       /\ intervals' = {}
       /\ result' = Null /\ error' = Null /\ downloadUrl' = Null
       /\ LogOf(logEntries', pendingLog') = LogOf(logEntries, pendingLog)
       /\ \A i \in 1..Len(LogOf(logEntries', pendingLog')) :
            LogOf(logEntries', pendingLog')[i].type # "complete"
       /\ progress' = progress
       /\ showLog => progress' = LastProgress(handled)]_vars

\* The stream ended after a start and a progress event only: the run is
\* over with progress 50, no result and the three entries of the log.
C29_Witness ==
  /\ mounted /\ showLog /\ inputs = "events" /\ pc = "done"
  /\ Len(handled) = 2
  /\ handled[1].value = Documents.S2
  /\ handled[2].value = Documents.P12
  /\ ~isProcessing
  /\ progress = Pct(50)
  /\ result = Null /\ error = Null /\ downloadUrl = Null
  /\ Len(LogOf(logEntries, pendingLog)) = 3


-----------------------------------------------------------------------------
(* Removing the file during a fallback run (SpecFallback).                  *)

\* C30 - Removing the file does not cancel a fallback run: removeFile resets
\* file, progress, result, error and the artifact handle and leaves the
\* intervals, isProcessing and the pending request as they are; and a
\* successful response that arrives with no file selected still installs
\* the result, a new artifact handle and progress 100.
C30_RemoveFileKeepsRun ==
  /\ [][removeFileFallback =>
          /\ ~file'
          /\ progress' = 0
          /\ result' = Null /\ error' = Null /\ downloadUrl' = Null
          /\ UNCHANGED <<intervals, timerIntervalRef, progressIntervalRef,
                         isProcessing, pc, response>>]_vars
  /\ [][(blobResolved /\ mounted /\ ~file) =>
          /\ result' = resultOf(response)
          /\ downloadUrl' \in objectUrls' \ objectUrls
          /\ progress' = Pct(100)
          /\ ~file']_vars

\* The file was removed during a run and the response arrived: a result
\* and an artifact with no file selected.
C30_Witness ==
  /\ mounted /\ pc = "done"
  /\ ~file
  /\ ~isProcessing
  /\ result # Null
  /\ downloadUrl \in objectUrls
  /\ progress = Pct(100)

=============================================================================
